---- MODULE Spec2Model ----
(***************************************************************************)
(* diskrasper: the controller state machine (StateMachine), the erase      *)
(* process watcher thread (DiskWiper), the event sources (DiskMonitor and  *)
(* the GPIO button callback) and the erase processes they drive.           *)
(*                                                                         *)
(* The controller's event handler is split at the points where it touches  *)
(* data shared with the watcher thread (state, proc, wipeevent), so that   *)
(* the interleavings of the two threads are those of the program.          *)
(***************************************************************************)
EXTENDS Integers, Sequences, FiniteSets, TLC

\* Bounds of the model.
MaxQueue == 2      \* events waiting in the queue at one time
MaxButtons == 3    \* button presses over a run (bounds the erase requests)

States == {"IDLE", "READY", "ERASING", "IOERROR", "WIPED", "YANKED"}
Events == {"add", "remove", "button", "dd_ok", "dd_fail"}
NoState == "NONE"          \* StateMachine.state before run(): None
NoRule == "NORULE"         \* the for/else branch: no rule matched
NoProc == 0                \* DiskWiper.proc before the first Popen: None
Pids == 1..MaxButtons      \* the erase processes, in launch order

VARIABLES
    state,       \* StateMachine.state
    queue,       \* StateMachine.queue: records [evt, pid]; pid names the erase
                 \* process whose exit produced the event (0: hotplug or button)
    pc,          \* position of the main thread (StateMachine.run / main)
    pattern,     \* name of UserInterface.pattern
    update,      \* UserInterface.update (threading.Event)
    stopevent,   \* UserInterface.stopevent (threading.Event)
    wipeevent,   \* DiskWiper.wipeevent (threading.Event)
    proc,        \* DiskWiper.proc: pid of the last Popen object, or NoProc
    procs,       \* status of every erase process
    wpc,         \* position of the DiskWiper thread
    wipeCalls,   \* number of calls of DiskWiper.wipe()
    abortCalls,  \* number of calls of DiskWiper.abort()
    buttons,     \* number of button presses so far
    seqPos,      \* how far the events processed so far follow Scenario (-1: not)
    last,        \* the event processed last and the state it was processed in
    entryBase,   \* number of processes launched before the last call of wipe()
    upc,         \* position of the UserInterface thread
    iter,        \* name of the pattern the for loop of UserInterface.run iterates
    idx,         \* the step of iter the for loop is at
    leds,        \* the LEDs switched on by the last GPIO output
    dpc,         \* position of the caller inside UserInterface.display
    fresh        \* patterns requested since a request met the thread waiting

\* The variables of the UserInterface thread and its callers.
uivars == <<upc, iter, idx, leds, dpc, fresh>>

vars == <<state, queue, pc, pattern, update, stopevent, wipeevent, proc, procs,
          wpc, wipeCalls, abortCalls, buttons, seqPos, last, entryBase,
          upc, iter, idx, leds, dpc, fresh>>

\* The transition table, in the order of the source.
TRANSITIONS_swapped ==
    << <<"IDLE",    "add",     "READY">>,
       <<"IDLE",    "button",  "IDLE">>,
       <<"READY",   "remove",  "IDLE">>,
       <<"READY",   "button",  "ERASING">>,
       <<"ERASING", "remove",  "YANKED">>,
       <<"ERASING", "button",  "ERASING">>,
       <<"ERASING", "dd_ok",   "IOERROR">>,
       <<"ERASING", "dd_fail", "WIPED">>,
       <<"IOERROR", "remove",  "IDLE">>,
       <<"IOERROR", "button",  "IOERROR">>,
       <<"WIPED",   "remove",  "IDLE">>,
       <<"WIPED",   "button",  "WIPED">>,
       <<"YANKED",  "add",     "READY">>,
       <<"YANKED",  "button",  "IDLE">> >>

TRANSITIONS ==
    << <<"IDLE",    "add",     "READY">>,
       <<"IDLE",    "button",  "IDLE">>,
       <<"READY",   "remove",  "IDLE">>,
       <<"READY",   "button",  "ERASING">>,
       <<"ERASING", "remove",  "YANKED">>,
       <<"ERASING", "button",  "ERASING">>,
       <<"ERASING", "dd_ok",   "WIPED">>,
       <<"ERASING", "dd_fail", "IOERROR">>,
       <<"IOERROR", "remove",  "IDLE">>,
       <<"IOERROR", "button",  "IOERROR">>,
       <<"WIPED",   "remove",  "IDLE">>,
       <<"WIPED",   "button",  "WIPED">>,
       <<"YANKED",  "add",     "READY">>,
       <<"YANKED",  "button",  "IDLE">> >>

\* The scan of StateMachine.run: the target of the first rule that matches
\* (curstate, trigger), or NoRule when the loop ends without a break.
Matches(s, e) ==
    {i \in 1..Len(TRANSITIONS) : TRANSITIONS[i][1] = s /\ TRANSITIONS[i][2] = e}

Lookup_fallback(s, e) ==
    IF Matches(s, e) = {} THEN "IDLE"
    ELSE TRANSITIONS[CHOOSE i \in Matches(s, e) : \A j \in Matches(s, e) : i <= j][3]

Lookup(s, e) ==
    IF Matches(s, e) = {} THEN NoRule
    ELSE TRANSITIONS[CHOOSE i \in Matches(s, e) : \A j \in Matches(s, e) : i <= j][3]

\* StateMachine.enter: the leave/enter actions run only when the state changes.
EnterChanges_always(cur, new) == TRUE

EnterChanges(cur, new) == cur # new

\* The call an enter_<STATE> method makes to the DiskWiper before it sets the
\* display: wipe() in enter_ERASING, abort() in enter_YANKED.
EntryCall(s) ==
    CASE s = "ERASING" -> "wipe"
      [] s = "YANKED"  -> "abort"
      [] OTHER         -> "none"

\* The pattern an enter_<STATE> method hands to UserInterface.display.
EntryPattern_dark(s) ==
    CASE s = "IDLE"    -> "red"
      [] s = "READY"   -> "yellow"
      [] s = "ERASING" -> "blink"
      [] s = "IOERROR" -> "red"
      [] s = "WIPED"   -> "green"
      [] s = "YANKED"  -> "red"

EntryPattern(s) ==
    CASE s = "IDLE"    -> "blank"
      [] s = "READY"   -> "yellow"
      [] s = "ERASING" -> "blink"
      [] s = "IOERROR" -> "red"
      [] s = "WIPED"   -> "green"
      [] s = "YANKED"  -> "red"

\* Status of an erase process.
\*   unborn: not launched;  running;  dying: SIGKILL sent, not yet gone;
\*   exit0 / exitN: ended by itself with status 0 / non-zero;  exitK: killed.
Live == {"running", "dying"}
Exited == {"exit0", "exitN", "exitK"}

\* Popen.wait returns once the process has exited.
HasExited_nowait(st) == st # "unborn"

HasExited(st) == st \in Exited

\* Popen.kill: SIGKILL reaches a process that still runs; nothing else changes.
Killed(st) == IF st = "running" THEN "dying" ELSE st

\* DiskWiper.run's test before it reports a failed erase.
ReportsFailure_always(st) == TRUE

ReportsFailure(st) == st # "YANKED"

Launched == Cardinality({p \in Pids : procs[p] # "unborn"})

Ev(e, p) == [evt |-> e, pid |-> p]

\* The event sequence of the erase-and-remove scenario.
Scenario == <<"add", "button", "dd_ok", "remove">>

NextPos(pos, e) ==
    IF pos >= 0 /\ pos < Len(Scenario) /\ Scenario[pos + 1] = e THEN pos + 1 ELSE -1

Init ==
    /\ state = NoState
    /\ queue = <<>>
    /\ pc = "init"
    /\ pattern = "blank"
    /\ update = FALSE
    /\ stopevent = FALSE
    /\ wipeevent = FALSE
    /\ proc = NoProc
    /\ procs = [p \in Pids |-> "unborn"]
    /\ wpc = "wait"
    /\ wipeCalls = 0
    /\ abortCalls = 0
    /\ buttons = 0
    /\ seqPos = 0
    /\ last = [from |-> NoState, evt |-> "none", pid |-> 0]
    /\ entryBase = 0
    /\ upc = "while"
    /\ iter = "blank"
    /\ idx = 1
    /\ leds = ""
    /\ dpc = "idle"
    /\ fresh = {}

\* StateMachine.run up to its loop: the helper threads are started, the
\* initial state is entered (enter_IDLE) and the button callback is installed.
RunStart ==
    /\ pc = "init"
    /\ state' = "IDLE"
    /\ pattern' = EntryPattern("IDLE")
    /\ update' = TRUE
    /\ pc' = "loop"
    /\ UNCHANGED <<queue, stopevent, wipeevent, proc, procs, wpc, wipeCalls,
                   abortCalls, buttons, seqPos, last, entryBase>>
    /\ UNCHANGED uivars

\* DiskMonitor._add / _remove: a udev event for the watched device.
Hotplug ==
    /\ pc # "init" /\ pc # "stopped"
    /\ Len(queue) < MaxQueue
    /\ \E e \in {"add", "remove"} : queue' = Append(queue, Ev(e, 0))
    /\ UNCHANGED <<state, pc, pattern, update, stopevent, wipeevent, proc, procs,
                   wpc, wipeCalls, abortCalls, buttons, seqPos, last, entryBase>>
    /\ UNCHANGED uivars

\* StateMachine._button: the GPIO callback.
Button ==
    /\ pc # "init" /\ pc # "stopped"
    /\ Len(queue) < MaxQueue
    /\ buttons < MaxButtons
    /\ queue' = Append(queue, Ev("button", 0))
    /\ buttons' = buttons + 1
    /\ UNCHANGED <<state, pc, pattern, update, stopevent, wipeevent, proc, procs,
                   wpc, wipeCalls, abortCalls, seqPos, last, entryBase>>
    /\ UNCHANGED uivars

\* queue.Queue.get: the item that has waited longest.
QueueGet_newest(q) == q[Len(q)]

QueueGet(q) == Head(q)

\* One turn of the loop of StateMachine.run, up to the assignment of
\* self.state in enter().
CtrlDequeue ==
    /\ pc = "loop"
    /\ queue # <<>>
    /\ queue' = Tail(queue)
    /\ seqPos' = NextPos(seqPos, QueueGet(queue).evt)
    /\ last' = [from |-> state, evt |-> QueueGet(queue).evt,
                pid |-> QueueGet(queue).pid]
    /\ LET new == Lookup(state, QueueGet(queue).evt) IN
         IF new # NoRule /\ EnterChanges(state, new)
           THEN state' = new /\ pc' = "enter"
           ELSE UNCHANGED <<state, pc>>
    /\ UNCHANGED <<pattern, update, stopevent, wipeevent, proc, procs, wpc,
                   wipeCalls, abortCalls, buttons, entryBase>>
    /\ UNCHANGED uivars

\* The first statement of enter_<STATE>.
CtrlEnter ==
    /\ pc = "enter"
    /\ \/ /\ EntryCall(state) = "wipe"          \* DiskWiper.wipe
          /\ wipeevent' = TRUE
          /\ wipeCalls' = wipeCalls + 1
          /\ entryBase' = Launched
          /\ pc' = "display"
          /\ UNCHANGED <<pattern, update, procs, abortCalls>>
       \/ /\ EntryCall(state) = "abort"         \* DiskWiper.abort
          /\ abortCalls' = abortCalls + 1
          /\ IF proc = NoProc
               THEN \* None has no kill(): AttributeError, which abort() does
                    \* not catch, ends run()
                    pc' = "crashed" /\ UNCHANGED procs
               ELSE /\ procs' = [procs EXCEPT ![proc] = Killed(procs[proc])]
                    /\ pc' = "display"
          /\ UNCHANGED <<pattern, update, wipeevent, wipeCalls, entryBase>>
       \/ /\ EntryCall(state) = "none"          \* UserInterface.display
          /\ pattern' = EntryPattern(state)
          /\ update' = TRUE
          /\ pc' = "loop"
          /\ UNCHANGED <<procs, wipeevent, wipeCalls, abortCalls, entryBase>>
    /\ UNCHANGED <<state, queue, stopevent, proc, wpc, buttons, seqPos, last>>
    /\ UNCHANGED uivars

\* The display() call that ends enter_ERASING and enter_YANKED.
CtrlDisplay ==
    /\ pc = "display"
    /\ pattern' = EntryPattern(state)
    /\ update' = TRUE
    /\ pc' = "loop"
    /\ UNCHANGED <<state, queue, stopevent, wipeevent, proc, procs, wpc,
                   wipeCalls, abortCalls, buttons, seqPos, last, entryBase>>
    /\ UNCHANGED uivars

\* KeyboardInterrupt is raised in the main thread and ends run().
Interrupt ==
    /\ pc \in {"loop", "enter", "display"}
    /\ pc' = "crashed"
    /\ UNCHANGED <<state, queue, pattern, update, stopevent, wipeevent, proc,
                   procs, wpc, wipeCalls, abortCalls, buttons, seqPos, last,
                   entryBase>>
    /\ UNCHANGED uivars

\* main: the exception that ended run() is caught and fsm.stop() is called.
\* The join() inside stop() is taken to return here; UISpec follows the thread
\* it waits for.
MainStop ==
    /\ pc = "crashed"
    /\ stopevent' = TRUE
    /\ pc' = "stopped"
    /\ UNCHANGED <<state, queue, pattern, update, wipeevent, proc, procs, wpc,
                   wipeCalls, abortCalls, buttons, seqPos, last, entryBase>>
    /\ UNCHANGED uivars

WatcherAlive == pc # "init" /\ pc # "stopped"

\* DiskWiper.run: wipeevent.wait() returns.
WWake ==
    /\ WatcherAlive
    /\ wpc = "wait"
    /\ wipeevent
    /\ wpc' = "clear"
    /\ UNCHANGED <<state, queue, pc, pattern, update, stopevent, wipeevent, proc,
                   procs, wipeCalls, abortCalls, buttons, seqPos, last, entryBase>>
    /\ UNCHANGED uivars

\* DiskWiper.run: wipeevent.clear().
WClear ==
    /\ WatcherAlive
    /\ wpc = "clear"
    /\ wipeevent' = FALSE
    /\ wpc' = "popen"
    /\ UNCHANGED <<state, queue, pc, pattern, update, stopevent, proc, procs,
                   wipeCalls, abortCalls, buttons, seqPos, last, entryBase>>
    /\ UNCHANGED uivars

\* DiskWiper.run: subprocess.Popen(WIPECMD) starts the next erase process.
WLaunch ==
    /\ WatcherAlive
    /\ wpc = "popen"
    /\ Launched < MaxButtons
    /\ procs' = [procs EXCEPT ![Launched + 1] = "running"]
    /\ proc' = Launched + 1
    /\ wpc' = "procwait"
    /\ UNCHANGED <<state, queue, pc, pattern, update, stopevent, wipeevent,
                   wipeCalls, abortCalls, buttons, seqPos, last, entryBase>>
    /\ UNCHANGED uivars

\* DiskWiper.run: Popen raises OSError (command not found, permission denied);
\* nothing in run() catches it and the thread ends.
WLaunchFails ==
    /\ WatcherAlive
    /\ wpc = "popen"
    /\ wpc' = "dead"
    /\ UNCHANGED <<state, queue, pc, pattern, update, stopevent, wipeevent, proc,
                   procs, wipeCalls, abortCalls, buttons, seqPos, last, entryBase>>
    /\ UNCHANGED uivars

\* DiskWiper.run: proc.wait() returns the exit status.
WWaitReturns ==
    /\ WatcherAlive
    /\ wpc = "procwait"
    /\ HasExited(procs[proc])
    /\ wpc' = IF procs[proc] = "exit0" THEN "ret0" ELSE "retN"
    /\ UNCHANGED <<state, queue, pc, pattern, update, stopevent, wipeevent, proc,
                   procs, wipeCalls, abortCalls, buttons, seqPos, last, entryBase>>
    /\ UNCHANGED uivars

\* DiskWiper.run: ret == 0, the event dd_ok is queued.
WPostOk ==
    /\ WatcherAlive
    /\ wpc = "ret0"
    /\ Len(queue) < MaxQueue
    /\ queue' = Append(queue, Ev("dd_ok", proc))
    /\ wpc' = "wait"
    /\ UNCHANGED <<state, pc, pattern, update, stopevent, wipeevent, proc, procs,
                   wipeCalls, abortCalls, buttons, seqPos, last, entryBase>>
    /\ UNCHANGED uivars

\* DiskWiper.run: ret != 0, the read of statemachine.state.
WCheckState ==
    /\ WatcherAlive
    /\ wpc = "retN"
    /\ wpc' = IF ReportsFailure(state) THEN "postfail" ELSE "wait"
    /\ UNCHANGED <<state, queue, pc, pattern, update, stopevent, wipeevent, proc,
                   procs, wipeCalls, abortCalls, buttons, seqPos, last, entryBase>>
    /\ UNCHANGED uivars

\* DiskWiper.run: the event dd_fail is queued.
WPostFail ==
    /\ WatcherAlive
    /\ wpc = "postfail"
    /\ Len(queue) < MaxQueue
    /\ queue' = Append(queue, Ev("dd_fail", proc))
    /\ wpc' = "wait"
    /\ UNCHANGED <<state, pc, pattern, update, stopevent, wipeevent, proc, procs,
                   wipeCalls, abortCalls, buttons, seqPos, last, entryBase>>
    /\ UNCHANGED uivars

\* An erase process ends by itself (dd.py: sys.exit(0) or sys.exit(1)).
ProcExits ==
    /\ \E p \in Pids, st \in {"exit0", "exitN"} :
         /\ procs[p] = "running"
         /\ procs' = [procs EXCEPT ![p] = st]
    /\ UNCHANGED <<state, queue, pc, pattern, update, stopevent, wipeevent, proc,
                   wpc, wipeCalls, abortCalls, buttons, seqPos, last, entryBase>>
    /\ UNCHANGED uivars

\* A killed erase process is gone.
ProcDies ==
    /\ \E p \in Pids :
         /\ procs[p] = "dying"
         /\ procs' = [procs EXCEPT ![p] = "exitK"]
    /\ UNCHANGED <<state, queue, pc, pattern, update, stopevent, wipeevent, proc,
                   wpc, wipeCalls, abortCalls, buttons, seqPos, last, entryBase>>
    /\ UNCHANGED uivars

Next ==
    \/ RunStart
    \/ Hotplug
    \/ Button
    \/ CtrlDequeue
    \/ CtrlEnter
    \/ CtrlDisplay
    \/ MainStop
    \/ WWake
    \/ WClear
    \/ WLaunch
    \/ WLaunchFails
    \/ WWaitReturns
    \/ WPostOk
    \/ WCheckState
    \/ WPostFail
    \/ ProcExits
    \/ ProcDies

Spec == Init /\ [][Next]_vars

\* The program with an interrupt (Ctrl-C) possible at any moment of run().
ShutdownNext ==
    \/ Next
    \/ Interrupt

ShutdownSpec == Init /\ [][ShutdownNext]_vars

(***************************************************************************)
(* The UserInterface thread and its callers                                *)
(***************************************************************************)

\* What the UserInterface thread and display() leave alone.
ctrlvars == <<state, queue, wipeevent, proc, procs, wpc, wipeCalls, abortCalls,
              buttons, seqPos, last, entryBase>>

None == "None"     \* duration None: the step is held until the next update

Step(l, d) == [leds |-> l, dur |-> d]

\* UserInterface.patterns: the steps (LEDs, duration in seconds) of each name.
patterns ==
    LET beat == <<Step("RG", "0.03"), Step("", "0.08")>> IN
    [ red    |-> <<Step("R", None)>>,
      yellow |-> <<Step("RG", None)>>,
      green  |-> <<Step("G", None)>>,
      blue   |-> <<Step("B", None)>>,
      blank  |-> <<Step("", None)>>,
      blink  |-> beat \o beat \o beat \o beat \o <<Step("", "0.55")>> ]

\* The names display() is called with: those of the table and one it lacks.
Requests == DOMAIN patterns \cup {"purple"}

\* Event.wait(timeout): it returns False, at the end of the timeout, only if
\* there is a timeout and the flag has not been set.
TimedOut_ignoresflag(flag, dur) == dur # None

TimedOut(flag, dur) == ~flag /\ dur # None

\* UserInterface.display: the test of the name and the assignment of
\* self.pattern.
DisplayAssign ==
    /\ pc = "loop"
    /\ dpc = "idle"
    /\ \E pat \in Requests :
         IF pat \in DOMAIN patterns
           THEN /\ pattern' = pat
                /\ dpc' = "set"
                /\ fresh' = IF fresh = {} THEN {} ELSE fresh \cup {pat}
           ELSE UNCHANGED <<pattern, dpc, fresh>>
    /\ UNCHANGED <<pc, update, stopevent, upc, iter, idx, leds>>
    /\ UNCHANGED ctrlvars

\* UserInterface.display: self.update.set().
DisplaySet_noflag ==
    /\ pc = "loop"
    /\ dpc = "set"
    /\ dpc' = "idle"
    /\ fresh' = IF upc = "wait" THEN {pattern} ELSE fresh
    /\ UNCHANGED <<pc, pattern, update, stopevent, upc, iter, idx, leds>>
    /\ UNCHANGED ctrlvars

DisplaySet ==
    /\ pc = "loop"
    /\ dpc = "set"
    /\ update' = TRUE
    /\ dpc' = "idle"
    /\ fresh' = IF upc = "wait" THEN {pattern} ELSE fresh
    /\ UNCHANGED <<pc, pattern, stopevent, upc, iter, idx, leds>>
    /\ UNCHANGED ctrlvars

\* StateMachine.stop: userinterface.stop() sets the stop event.
StopUI ==
    /\ pc = "crashed"
    /\ stopevent' = TRUE
    /\ pc' = "joining"
    /\ UNCHANGED <<pattern, update>>
    /\ UNCHANGED uivars
    /\ UNCHANGED ctrlvars

\* StateMachine.stop: join() returns when the thread has ended, then
\* GPIO.cleanup().
JoinCleanup ==
    /\ pc = "joining"
    /\ upc = "exited"
    /\ pc' = "stopped"
    /\ leds' = ""
    /\ UNCHANGED <<pattern, update, stopevent, upc, iter, idx, dpc, fresh>>
    /\ UNCHANGED ctrlvars

\* UserInterface.run: the test of the while loop and, if it passes, the start
\* of the for loop over self.pattern.
UWhile ==
    /\ pc # "init"
    /\ upc = "while"
    /\ IF stopevent
         THEN upc' = "exited" /\ UNCHANGED <<iter, idx>>
         ELSE iter' = pattern /\ idx' = 1 /\ upc' = "output"
    /\ UNCHANGED <<pc, pattern, update, stopevent, leds, dpc, fresh>>
    /\ UNCHANGED ctrlvars

\* UserInterface.run: the GPIO outputs of one step.
UOutput ==
    /\ upc = "output"
    /\ leds' = patterns[iter][idx].leds
    /\ upc' = "wait"
    /\ fresh' = {}
    /\ UNCHANGED <<pc, pattern, update, stopevent, iter, idx, dpc>>
    /\ UNCHANGED ctrlvars

\* UserInterface.run: update.wait() returns True.
UWaitSet ==
    /\ upc = "wait"
    /\ update
    /\ upc' = "clear"
    /\ UNCHANGED <<pc, pattern, update, stopevent, iter, idx, leds, dpc, fresh>>
    /\ UNCHANGED ctrlvars

\* UserInterface.run: update.wait() returns False; the for loop goes on to
\* the next step, or ends.
UTimeout ==
    /\ upc = "wait"
    /\ TimedOut(update, patterns[iter][idx].dur)
    /\ IF idx < Len(patterns[iter])
         THEN idx' = idx + 1 /\ upc' = "output"
         ELSE upc' = "while" /\ UNCHANGED idx
    /\ UNCHANGED <<pc, pattern, update, stopevent, iter, leds, dpc, fresh>>
    /\ UNCHANGED ctrlvars

\* UserInterface.run: update.clear() and break.
UClear ==
    /\ upc = "clear"
    /\ update' = FALSE
    /\ upc' = "while"
    /\ UNCHANGED <<pc, pattern, stopevent, iter, idx, leds, dpc, fresh>>
    /\ UNCHANGED ctrlvars

UIThread ==
    \/ UWhile
    \/ UOutput
    \/ UWaitSet
    \/ UTimeout
    \/ UClear

\* The UserInterface thread under any sequence of display() calls of the main
\* thread, and the shutdown that follows an interrupt.
UINext ==
    \/ RunStart
    \/ DisplayAssign
    \/ DisplaySet
    \/ Interrupt
    \/ StopUI
    \/ JoinCleanup
    \/ UIThread

UISpec == Init /\ [][UINext]_vars

\* The scheduler lets the UserInterface thread run whenever it can.
FairUISpec == UISpec /\ WF_vars(UIThread)

(***************************************************************************)
(* Properties                                                              *)
(***************************************************************************)

\* The step in which the controller loop takes the next event off the queue.
Dequeues == queue # <<>> /\ queue' = Tail(queue)

\* The 14 rules of the transition table of the specification.
Rules ==
    { <<"IDLE", "add", "READY">>,        <<"IDLE", "button", "IDLE">>,
      <<"READY", "remove", "IDLE">>,     <<"READY", "button", "ERASING">>,
      <<"ERASING", "remove", "YANKED">>, <<"ERASING", "button", "ERASING">>,
      <<"ERASING", "dd_ok", "WIPED">>,   <<"ERASING", "dd_fail", "IOERROR">>,
      <<"IOERROR", "remove", "IDLE">>,   <<"IOERROR", "button", "IOERROR">>,
      <<"WIPED", "remove", "IDLE">>,     <<"WIPED", "button", "WIPED">>,
      <<"YANKED", "add", "READY">>,      <<"YANKED", "button", "IDLE">> }

HasRule(s, e) == \E r \in Rules : r[1] = s /\ r[2] = e

\* C1: when the controller loop dequeues the event of one of the 14 rules in
\* that rule's state, the state after the step is the rule's target; and no
\* (state, event) pair has two rules in the table.
C1_RulesApplied ==
    /\ \A i, j \in 1..Len(TRANSITIONS) :
          (TRANSITIONS[i][1] = TRANSITIONS[j][1]
             /\ TRANSITIONS[i][2] = TRANSITIONS[j][2]) => i = j
    /\ [][ Dequeues =>
            \A r \in Rules :
                (state = r[1] /\ Head(queue).evt = r[2]) => state' = r[3]
        ]_vars

\* An erase failure was processed in ERASING and the controller is in IOERROR.
C1_Witness ==
    /\ state = "IOERROR" /\ pc = "loop"
    /\ last.from = "ERASING" /\ last.evt = "dd_fail"

\* C2: an event without a rule for the current state leaves the state as it
\* is, makes no display request and no wipe() or abort() call, and leaves the
\* controller at the top of its loop, ready for the next event.
C2_InvalidIgnored ==
    [][ (Dequeues /\ ~HasRule(state, Head(queue).evt)) =>
            /\ state' = state
            /\ pc' = "loop"
            /\ UNCHANGED <<pattern, update, wipeevent, wipeCalls, abortCalls,
                           proc, procs>>
      ]_vars

\* A second DiskAdded was processed in READY, and the state is READY.
C2_Witness ==
    /\ state = "READY" /\ pc = "loop"
    /\ last.from = "READY" /\ last.evt = "add"

\* C3: a button press in IDLE, ERASING, IOERROR or WIPED changes neither the
\* state nor the pattern requested nor the number of wipe() requests, and runs
\* no entry action; a wipe() request is only ever made by an entry into
\* ERASING from another state.
C3_SelfTransitionNoOp ==
    [][ /\ (Dequeues /\ Head(queue).evt = "button"
                /\ state \in {"IDLE", "ERASING", "IOERROR", "WIPED"}) =>
              /\ state' = state
              /\ pc' = "loop"
              /\ UNCHANGED <<pattern, update, wipeevent, wipeCalls, abortCalls,
                             procs>>
        /\ (wipeCalls' # wipeCalls) =>
              (state = "ERASING" /\ last.from # "ERASING"
                 /\ wipeCalls' = wipeCalls + 1)
      ]_vars

\* A button press was processed during ERASING, after the one erase request.
C3_Witness ==
    /\ state = "ERASING" /\ pc = "loop"
    /\ last.from = "ERASING" /\ last.evt = "button"
    /\ wipeCalls = 1

\* C4: while the events processed since the start are a prefix of DiskAdded,
\* ButtonPressed, EraseSucceeded, DiskRemoved, the controller is in READY,
\* ERASING, WIPED and IDLE in turn; once the fourth has been processed the
\* pattern requested last is "blank" and wipe() was called and the command
\* launched exactly once.
C4_HappyPath ==
    /\ seqPos = 1 => state = "READY"
    /\ seqPos = 2 => state = "ERASING"
    /\ seqPos = 3 => state = "WIPED"
    /\ seqPos = 4 => state = "IDLE"
    /\ (seqPos = 4 /\ pc = "loop") =>
          (pattern = "blank" /\ wipeCalls = 1 /\ Launched = 1)

\* The four events of the scenario have been processed.
C4_Witness == seqPos = 4 /\ pc = "loop" /\ queue = <<>>

\* C5: DiskRemoved in ERASING enters YANKED and the entry calls abort(), with
\* the state already YANKED; a watcher that reads the state as YANKED after a
\* non-zero exit posts nothing; and an EraseFailed processed in YANKED leaves
\* the state YANKED: no step leads from YANKED to IOERROR.
C5_YankedWins ==
    [][ /\ (Dequeues /\ state = "ERASING" /\ Head(queue).evt = "remove") =>
              (state' = "YANKED" /\ pc' = "enter")
        /\ (pc = "enter" /\ state = "YANKED" /\ pc' # pc) =>
              abortCalls' = abortCalls + 1
        /\ (abortCalls' # abortCalls
               \/ \E p \in Pids : procs[p] # "dying" /\ procs'[p] = "dying") =>
              state = "YANKED"
        /\ (wpc = "retN" /\ wpc' # wpc /\ state = "YANKED") =>
              (wpc' = "wait" /\ queue' = queue)
        /\ (Dequeues /\ state = "YANKED" /\ Head(queue).evt = "dd_fail") =>
              (state' = "YANKED" /\ pc' = "loop")
        /\ state = "YANKED" => state' # "IOERROR"
      ]_vars

\* The watcher has observed the exit of the killed process while the state was
\* YANKED, and no event has been queued or processed since the removal.
C5_Witness ==
    /\ state = "YANKED" /\ pc = "loop"
    /\ last.from = "ERASING" /\ last.evt = "remove"
    /\ proc # NoProc /\ procs[proc] = "exitK"
    /\ wpc = "wait" /\ queue = <<>>

\* C6: the exit of a process killed by abort() never surfaces as EraseFailed:
\* no dd_fail of a killed process is in the queue, and none has driven the
\* controller to IOERROR.
C6_KilledNeverReported ==
    /\ \A i \in 1..Len(queue) :
          ~(queue[i].evt = "dd_fail" /\ procs[queue[i].pid] = "exitK")
    /\ ~(state = "IOERROR" /\ last.evt = "dd_fail" /\ last.from = "ERASING"
           /\ procs[last.pid] = "exitK")

\* C7: abort() called when no erase process is running (none launched yet, or
\* the last one has exited) raises nothing, queues nothing and kills nothing,
\* and the controller goes on to the display request.
C7_AbortSafe ==
    [][ (abortCalls' # abortCalls
           /\ (proc = NoProc \/ procs[proc] \notin Live)) =>
            (pc' = "display" /\ queue' = queue /\ procs' = procs)
      ]_vars

\* C8: when the erase command cannot be launched, the watcher goes on to post
\* EraseFailed.
C8_LaunchFailureReported ==
    [][ (wpc = "popen" /\ wpc' # "popen" /\ procs' = procs) =>
            \/ wpc' = "postfail"
            \/ queue' = Append(queue, Ev("dd_fail", proc))
      ]_vars

\* C9: at most one erase process is live, and the watcher launches a process
\* only when every process launched before has exited and it has itself seen
\* the exit of the last one (it is past proc.wait()).
C9_OneLiveProcess ==
    [][ /\ Cardinality({p \in Pids : procs'[p] \in Live}) <= 1
        /\ \A p \in Pids :
              (procs[p] = "unborn" /\ procs'[p] # "unborn") =>
                 /\ \A q \in Pids : procs[q] \notin Live
                 /\ wpc = "popen"
                 /\ proc' = p
      ]_vars

\* ERASING was entered again through YANKED and READY, and the second process
\* runs after the first, killed, one has exited.
C9_Witness ==
    /\ Launched = 2 /\ abortCalls >= 1
    /\ procs[1] = "exitK" /\ procs[2] = "running"

\* C10: once the watcher has caught up (it waits for the next request and
\* none is pending), the number of processes launched equals the number of
\* entries into ERASING.
C10_OneLaunchPerEntry ==
    (wpc = "wait" /\ ~wipeevent) => Launched = wipeCalls
\* C11: wipe() is called only when every erase process launched so far has
\* exited.
C11_WipeOnlyWhenExited ==
    [][ (wipeCalls' # wipeCalls) => \A p \in Pids : procs[p] \notin Live ]_vars

C14_NoProcessAfterShutdown ==
    pc = "stopped" => \A p \in Pids : procs[p] \notin Live

\* The pattern the specification assigns to each state.
StatePattern(s) ==
    CASE s = "IDLE"    -> "blank"
      [] s = "READY"   -> "yellow"
      [] s = "ERASING" -> "blink"
      [] s = "IOERROR" -> "red"
      [] s = "WIPED"   -> "green"
      [] s = "YANKED"  -> "red"

\* C16: whenever the controller is at the top of its loop (the initial entry
\* or the processing of an event is finished) the pattern requested last is
\* the one assigned to the current state.
C16_PatternMatchesState ==
    pc = "loop" => (state \in States /\ pattern = StatePattern(state))

\* An event without a rule has been processed in YANKED after the entry action
\* requested red.
C16_Witness ==
    /\ pc = "loop" /\ state = "YANKED" /\ pattern = "red"
    /\ last.from = "YANKED" /\ last.evt = "remove"

\* C17: the watcher launches an erase process only while the state is ERASING.
C17_LaunchOnlyInErasing ==
    [][ (\E p \in Pids : procs[p] = "unborn" /\ procs'[p] # "unborn") =>
            state = "ERASING" ]_vars

\* C18: a dd_ok or dd_fail that moves the controller out of ERASING comes from
\* a process launched after the most recent entry into ERASING.
C18_OutcomeFromOwnProcess ==
    [][ (Dequeues /\ state = "ERASING"
           /\ Head(queue).evt \in {"dd_ok", "dd_fail"}) =>
            Head(queue).pid > entryBase ]_vars

\* The steps of the program's own threads and of the erase processes: all
\* steps but those of the environment (hotplug, button, failing launch).
Progress ==
    \/ CtrlDequeue \/ CtrlEnter \/ CtrlDisplay
    \/ WWake \/ WClear \/ WLaunch \/ WWaitReturns \/ WPostOk \/ WCheckState
    \/ WPostFail
    \/ ProcExits \/ ProcDies

\* C19: the controller is never left in ERASING with nothing that can still
\* happen: while run() is in ERASING some thread or erase process can take a
\* step (so that, under fair scheduling, ERASING is left).
C19_ErasingNeverStuck ==
    (state = "ERASING" /\ pc \in {"loop", "enter", "display"}) => ENABLED Progress

\* C13: once stop() has been requested the display thread can always go on
\* until its loop has exited, so that the join returns and the GPIO is
\* released, whatever pattern is displayed: while the main thread waits in
\* join(), the thread has ended or has a step to take.
C13_ShutdownCompletes ==
    pc = "joining" => (upc = "exited" \/ ENABLED UIThread)

\* C15: when a display() request completes while the thread is suspended in
\* the wait of a step, the wait is left only by cancellation, and the next
\* output is step 1 of the requested pattern (or of one requested after it),
\* never a further step of the pattern that was being shown.
C15_RequestPreempts ==
    [][ /\ (fresh # {} /\ upc = "wait" /\ upc' # "wait") => upc' = "clear"
        /\ (fresh # {} /\ upc = "output" /\ upc' = "wait") =>
               (idx = 1 /\ iter \in fresh)
      ]_vars

\* The wait of a step of blink or yellow (red and green LEDs on) has been
\* cancelled by display("green"), and the first step of green is next.
C15_Witness ==
    /\ fresh = {"green"}
    /\ upc = "output"
    /\ iter = "green" /\ idx = 1
    /\ leds = "RG"

\* The thread shows the steps of the pattern requested last.
ShowsLatest ==
    /\ (dpc = "idle" /\ ~update /\ upc \in {"output", "wait"}) => iter = pattern
    /\ upc = "wait" => leds = patterns[iter][idx].leds

\* C20: no display request is lost. Whenever no request is in progress or
\* waiting to be noticed, the thread is on the pattern requested last; and
\* every completed request for a pattern is followed by the thread waiting in
\* a step of that pattern with its LEDs output, unless a newer pattern is
\* requested or the main thread leaves its loop first.
C20_NoRequestLost ==
    /\ []ShowsLatest
    /\ \A p \in DOMAIN patterns :
         (pc = "loop" /\ dpc = "idle" /\ pattern = p)
           ~> (pc # "loop" \/ pattern # p \/ (upc = "wait" /\ iter = p))

\* Two requests in quick succession: the thread had woken for the first when
\* the second came, and is now held on the pattern of the second.
C20_Witness ==
    /\ pc = "loop" /\ dpc = "idle" /\ ~update
    /\ upc = "wait" /\ iter = "red" /\ pattern = "red" /\ leds = "R"

====
